---- MODULE Spec2Model ----
(***************************************************************************)
(* piccy-picky: the review session of src/main.rs (argument parsing, raw    *)
(* mode, batch sampling, layout, per-slot prompts, the BatchComplete       *)
(* prompt), the layout arithmetic of main/calc_image_height_rows with its  *)
(* f32 operations carried out bit-exactly, and term::abbreviate_path.      *)
(***************************************************************************)
EXTENDS Integers, Sequences, FiniteSets, TLC

VARIABLES
    pc,            \* position of main: "main", "test_search", "verify", "raw", "scan",
                   \* "loop", "render", "prompt", "complete", "exited"
    args,          \* env::args() without the program name
    overflowChecks,\* build profile: TRUE = integer overflow panics (debug), FALSE = wraps
    target_paths, depth, test_search,
    rawMode,       \* terminal is in raw mode (tcsetattr state)
    images,        \* the WorkingSet (Vec<PathBuf>)
    chosen,        \* Option<Vec<PathBuf>>: <<>> is None, <<batch>> is Some(batch)
    cols, rows, px_width, px_height,
    scale_factor, scaled_display_width_chars,
    displayed,     \* paths of the batch that rendered
    decisions,     \* Vec<char> of the current pass
    idx,           \* slot being prompted (0-based, as in the source)
    trashed,       \* files moved to the trash (file system state)
    exitPath, exitCode,
    lastCmd,       \* the command the last step handled
    rendered,      \* images the last step sent to the terminal, in order
    renderWidth,   \* the width field of the escape sequence of each of them
    trashCalls,    \* paths the last step handed to move_to_trash
    discovered,    \* history: find_images has been called
    searchOut,     \* what --test-search printed
    decided,       \* history: images that got a Keep or a successful Bin
    sizeBefore,    \* history: |images| when the current pass began
    binFailed,     \* history: a Bin failed at the current slot
    lay,           \* layout-arithmetic harness: inputs and results
    abbr,          \* abbreviate_path harness: inputs and result
    esc            \* escape-sequence harness: inputs and the sequence emitted

sessionVars == <<pc, args, overflowChecks, target_paths, depth, test_search, rawMode,
                 images, chosen, cols, rows, px_width, px_height, scale_factor,
                 scaled_display_width_chars, displayed, decisions, idx, trashed,
                 exitPath, exitCode, lastCmd, rendered, trashCalls, decided,
                 sizeBefore, binFailed, renderWidth, discovered, searchOut>>
vars == <<sessionVars, lay, abbr, esc>>

(***************************************************************************)
(* Helpers.                                                                *)
(***************************************************************************)
Min(a, b) == IF a <= b THEN a ELSE b
Max(a, b) == IF a >= b THEN a ELSE b
SatSub(a, b) == IF a >= b THEN a - b ELSE 0      \* saturating_sub
Range(s) == {s[i] : i \in 1..Len(s)}

(***************************************************************************)
(* IEEE-754 binary32 arithmetic on the values the layout code produces.    *)
(* A float is [m, e] with value m * 2^e; m = 0 or 2^23 <= m < 2^24.         *)
(* Results are rounded to nearest, ties to even, as the hardware does.     *)
(***************************************************************************)
Two12 == 2^12
Two22 == 2^22
Two23 == 2^23
Two24 == 2^24
F32Zero == [m |-> 0, e |-> 0]
F32One == [m |-> Two23, e |-> -23]

RECURSIVE Normalise(_, _)
Normalise(m, e) ==
    IF m = 0 THEN F32Zero
    ELSE IF m < Two23 THEN Normalise(2 * m, e - 1)
    ELSE [m |-> m, e |-> e]

\* `n as f32` for 0 <= n < 2^24 (exact)
F32FromNat(n) == Normalise(n, 0)

\* round-to-nearest-even of mantissa m with remainder rem against half
RoundMant(m, e, rem, half) ==
    LET up == rem > half \/ (rem = half /\ m % 2 = 1)
        m1 == IF up THEN m + 1 ELSE m
    IN  IF m1 = Two24 THEN [m |-> Two23, e |-> e + 1] ELSE [m |-> m1, e |-> e]

\* k more quotient bits of r/d: <<quotient, remainder>>
RECURSIVE LongDiv(_, _, _, _)
LongDiv(q, r, d, k) ==
    IF k = 0 THEN <<q, r>>
    ELSE LET r2 == 2 * r
         IN  IF r2 >= d THEN LongDiv(2 * q + 1, r2 - d, d, k - 1)
             ELSE LongDiv(2 * q, r2, d, k - 1)

\* a / b, b nonzero
F32Div(a, b) ==
    IF a.m = 0 THEN F32Zero
    ELSE LET k == IF a.m >= b.m THEN 23 ELSE 24
             qr == LongDiv(a.m \div b.m, a.m % b.m, b.m, k)
         IN  RoundMant(qr[1], a.e - b.e - k, 2 * qr[2], b.m)

\* a * b, the 48-bit product formed from 12-bit limbs
F32Mul(a, b) ==
    IF a.m = 0 \/ b.m = 0 THEN F32Zero
    ELSE LET ah == a.m \div Two12
             al == a.m % Two12
             bh == b.m \div Two12
             bl == b.m % Two12
             p0 == al * bl
             p1 == ah * bl + al * bh
             p2 == ah * bh
             d0 == p0 % Two12
             t1 == p1 + (p0 \div Two12)
             d1 == t1 % Two12
             hi == p2 + (t1 \div Two12)          \* product div 2^24
             lo == d1 * Two12 + d0               \* product mod 2^24
         IN  IF hi >= Two23
             THEN RoundMant(hi, a.e + b.e + 24, lo, Two23)
             ELSE RoundMant(2 * hi + (lo \div Two23), a.e + b.e + 23,
                            lo % Two23, Two22)

\* `x as u32` for a finite non-negative x: truncation toward zero
F32Trunc(a) ==
    IF a.m = 0 \/ a.e <= -24 THEN 0
    ELSE IF a.e >= 0 THEN a.m * 2^(a.e)
    ELSE a.m \div 2^(-a.e)

\* the literal 0.98 as an f32: 0x3F7AE148
F32_098 == [m |-> 16441672, e |-> -24]

\* a <= b
F32Le(a, b) ==
    \/ a.m = 0
    \/ b.m # 0 /\ (a.e < b.e \/ (a.e = b.e /\ a.m <= b.m))
\* f32::min
F32Min(a, b) == IF F32Le(a, b) THEN a ELSE b

(***************************************************************************)
(* term.rs: terminal geometry. A terminal environment is what isatty and   *)
(* ioctl(TIOCGWINSZ) report: [isatty, ioctlOk, ws], ws the WinSize record. *)
(***************************************************************************)
FallbackCols == 80
FallbackRows == 24
FallbackCharW == 8
FallbackCharH == 16

get_terminal_size(env) ==
    IF ~env.isatty THEN <<FallbackCols, FallbackRows>>
    ELSE IF ~env.ioctlOk THEN <<FallbackCols, FallbackRows>>
    ELSE <<env.ws.ws_col, env.ws.ws_row>>

get_terminal_pixel_size(env) ==
    IF ~env.ioctlOk \/ env.ws.ws_xpixel = 0 \/ env.ws.ws_ypixel = 0
    THEN LET cr == get_terminal_size(env)
         IN  <<cr[1] * FallbackCharW, cr[2] * FallbackCharH>>
    ELSE <<env.ws.ws_xpixel, env.ws.ws_ypixel>>

(***************************************************************************)
(* main.rs: the layout arithmetic. An image is [open, w, h]: whether       *)
(* image::open succeeds, and its natural dimensions.                       *)
(* Results are [tag, v] with tag "Ok", "Err" (the Result's Err) or "Panic".*)
(***************************************************************************)
UiRows == 5
WidthMarginCols == 2

calc_image_height_rows(img, display_width_chars, pixels_per_char_w, pixels_per_char_h) ==
    IF ~img.open THEN [tag |-> "Err", v |-> 0]
    ELSE LET aspect_ratio == F32Div(F32FromNat(img.h), F32FromNat(img.w))
             display_width_px == display_width_chars * pixels_per_char_w
             height_px == F32Trunc(F32Mul(F32FromNat(display_width_px), aspect_ratio))
         IN  IF pixels_per_char_h = 0
             THEN [tag |-> "Panic", v |-> 0]     \* division by zero
             ELSE [tag |-> "Ok",
                   v |-> (height_px + pixels_per_char_h - 1) \div pixels_per_char_h]

\* SumHeights with the loop given up at the first image that fails to open
RECURSIVE SumHeightsAbort(_, _, _, _, _)
SumHeightsAbort(imgs, i, w, ppw, pph) ==
    IF i > Len(imgs) THEN [tag |-> "Ok", v |-> 0]
    ELSE LET r == calc_image_height_rows(imgs[i], w, ppw, pph)
         IN  IF r.tag = "Panic" THEN r
             ELSE IF r.tag = "Err" THEN [tag |-> "Ok", v |-> 0]
             ELSE LET rest == SumHeightsAbort(imgs, i + 1, w, ppw, pph)
                  IN  IF rest.tag = "Panic" THEN rest
                      ELSE [tag |-> "Ok", v |-> r.v + rest.v]

\* the loop of main.rs:189-199 over the batch from position i on
RECURSIVE SumHeights(_, _, _, _, _)
SumHeights(imgs, i, w, ppw, pph) ==
    IF i > Len(imgs) THEN [tag |-> "Ok", v |-> 0]
    ELSE LET r == calc_image_height_rows(imgs[i], w, ppw, pph)
         IN  IF r.tag = "Panic" THEN r
             ELSE LET rest == SumHeights(imgs, i + 1, w, ppw, pph)
                  IN  IF rest.tag = "Panic" THEN rest
                      ELSE [tag |-> "Ok", v |-> r.v + rest.v]

\* ScaleFactor with the comparison of main.rs:203 off by one (>= for >)
ScaleFactorGe(total_height_rows, available_rows) ==
    IF total_height_rows >= available_rows
    THEN F32Mul(F32Div(F32FromNat(available_rows), F32FromNat(total_height_rows)), F32_098)
    ELSE F32One

\* main.rs:186,203-205
ScaleFactor(total_height_rows, available_rows) ==
    IF total_height_rows > available_rows
    THEN F32Mul(F32Div(F32FromNat(available_rows), F32FromNat(total_height_rows)), F32_098)
    ELSE F32One

\* main.rs:167-210 for a batch of images under geometry (c, r, pw, ph)
Layout(c, r, pw, ph, imgs) ==
    LET ui_height_px == UiRows * (ph \div Max(r, 1))
        available_height_px == SatSub(ph, ui_height_px)
        available_width_cols == SatSub(c, WidthMarginCols)
        available_width_px == available_width_cols * (pw \div Max(c, 1))
        display_width_chars == available_width_cols
        pixels_per_char_h == Max(ph, 1) \div Max(r, 1)
        pixels_per_char_w == Max(pw, 1) \div Max(c, 1)
        available_rows == SatSub(r, UiRows)
        sum == SumHeights(imgs, 1, display_width_chars, pixels_per_char_w, pixels_per_char_h)
        sf == ScaleFactor(sum.v, available_rows)
    IN  [panic |-> sum.tag = "Panic",
         available_height_px |-> available_height_px,
         available_width_px |-> available_width_px,
         display_width_chars |-> display_width_chars,
         pixels_per_char_w |-> pixels_per_char_w,
         pixels_per_char_h |-> pixels_per_char_h,
         available_rows |-> available_rows,
         total_height_rows |-> sum.v,
         scale_factor |-> IF sum.tag = "Panic" THEN F32One ELSE sf,
         scaled_display_width_chars |->
             IF sum.tag = "Panic" THEN 0
             ELSE F32Trunc(F32Mul(F32FromNat(display_width_chars), sf))]


(***************************************************************************)
(* The layout arithmetic on its own: a terminal report and a batch of 1..3 *)
(* images are drawn, LayPlan runs main.rs:121-122,167-210 on them, and     *)
(* LayRedisplay measures the batch again at the width handed to the        *)
(* renderer.                                                               *)
(***************************************************************************)
MaxWsCol == 6
MaxWsRow == 9
LayXPixels == {0, 3, 8, 17}
LayYPixels == {0, 4, 9, 16, 33}
LayEnvs ==
    {[isatty |-> TRUE, ioctlOk |-> TRUE,
      ws |-> [ws_row |-> r, ws_col |-> c, ws_xpixel |-> x, ws_ypixel |-> y]] :
        r \in 0..MaxWsRow, c \in 0..MaxWsCol, x \in LayXPixels, y \in LayYPixels}
\* the fallback terminal of term.rs:16,40: 80 x 24 cells of 8 x 16 px
StdEnv == [isatty |-> FALSE, ioctlOk |-> FALSE,
           ws |-> [ws_row |-> 0, ws_col |-> 0, ws_xpixel |-> 0, ws_ypixel |-> 0]]
\* 3:2 and 16:9 landscape images, a 1:2 portrait image, a file that does not decode
LayImages == {[open |-> TRUE, w |-> 3, h |-> 2], [open |-> TRUE, w |-> 1, h |-> 2],
              [open |-> TRUE, w |-> 1920, h |-> 1080], [open |-> FALSE, w |-> 1, h |-> 1]}
BatchSize == 3
LayBatches == UNION {[1..n -> LayImages] : n \in 1..BatchSize}

NoSearchOut == [count |-> 0, listed |-> <<>>, more |-> 0]

NoPlan == [panic |-> FALSE, available_height_px |-> 0, available_width_px |-> 0,
           display_width_chars |-> 0, pixels_per_char_w |-> 0, pixels_per_char_h |-> 0,
           available_rows |-> 0, total_height_rows |-> 0, scale_factor |-> F32One,
           scaled_display_width_chars |-> 0]

SessionIdle ==
    /\ pc = "idle" /\ args = <<>> /\ overflowChecks = FALSE
    /\ target_paths = <<>> /\ depth = 1 /\ test_search = FALSE
    /\ rawMode = FALSE /\ images = <<>> /\ chosen = <<>>
    /\ cols = 0 /\ rows = 0 /\ px_width = 0 /\ px_height = 0
    /\ scale_factor = F32One /\ scaled_display_width_chars = 0
    /\ displayed = <<>> /\ decisions = <<>> /\ idx = 0 /\ trashed = {}
    /\ exitPath = "none" /\ exitCode = -1
    /\ lastCmd = "none" /\ rendered = <<>> /\ trashCalls = <<>>
    /\ decided = {} /\ sizeBefore = 0 /\ binFailed = FALSE
    /\ renderWidth = <<>> /\ discovered = FALSE /\ searchOut = NoSearchOut

LayInit ==
    /\ SessionIdle
    /\ abbr = <<>> /\ esc = <<>>
    /\ lay \in {[stage |-> "input", env |-> e, imgs |-> b, plan |-> NoPlan, shown |-> 0] :
                    e \in LayEnvs \cup {StdEnv}, b \in LayBatches}

LayPlan ==
    /\ lay.stage = "input"
    /\ LET cr == get_terminal_size(lay.env)
           px == get_terminal_pixel_size(lay.env)
       IN  lay' = [lay EXCEPT !.stage = "planned",
                              !.plan = Layout(cr[1], cr[2], px[1], px[2], lay.imgs)]
    /\ UNCHANGED <<sessionVars, abbr, esc>>

\* the batch measured again (calc_image_height_rows) at the renderer's width
LayRedisplay ==
    /\ lay.stage = "planned"
    /\ ~lay.plan.panic
    /\ lay' = [lay EXCEPT !.stage = "shown",
                          !.shown = SumHeights(lay.imgs, 1, lay.plan.scaled_display_width_chars,
                                               lay.plan.pixels_per_char_w,
                                               lay.plan.pixels_per_char_h).v]
    /\ UNCHANGED <<sessionVars, abbr, esc>>

LayNext == LayPlan \/ LayRedisplay
SpecLayout == LayInit /\ [][LayNext]_vars

\* ---- C4 ----
\* C4: whenever the summed heightRows of a batch exceed availableRows, the
\* batch measured again at the final display width totals at most availableRows.
C4_RedisplayFits ==
    (lay.stage = "shown" /\ lay.plan.total_height_rows > lay.plan.available_rows)
        => lay.shown <= lay.plan.available_rows

\* ---- C5 ----
\* C5: when the batch's total rows do not exceed availableRows, the scale
\* factor is exactly 1.0 and the renderer's width is cols - 2 (saturating at 0).
C5_NoScaleWhenFits ==
    (lay.stage # "input" /\ ~lay.plan.panic
        /\ lay.plan.total_height_rows <= lay.plan.available_rows)
        => /\ lay.plan.scale_factor = F32One
           /\ lay.plan.scaled_display_width_chars
                = SatSub(get_terminal_size(lay.env)[1], WidthMarginCols)

\* a planned batch that fits exactly (total = available > 0) at a nonzero width
C5_Witness ==
    /\ lay.stage = "planned" /\ ~lay.plan.panic
    /\ lay.plan.total_height_rows = lay.plan.available_rows
    /\ lay.plan.available_rows > 0
    /\ lay.plan.scaled_display_width_chars > 0
    /\ Len(lay.imgs) = BatchSize

\* ---- C15 ----
\* C15: for every terminal geometry and batch the computed global scale factor
\* lies in (0, 1]: never 0, also when available_rows is 0, and never above 1.
C15_ScaleInUnitInterval ==
    (lay.stage # "input" /\ ~lay.plan.panic)
        => /\ lay.plan.scale_factor.m # 0
           /\ F32Le(lay.plan.scale_factor, F32One)

\* ---- C16 ----
\* C16: the total that is compared against available_rows and divides the scale
\* factor is the sum of the per-image height rows plus (count - 1) rows of
\* inter-image padding, count being the number of images in the batch.
C16_TotalIncludesPadding ==
    (lay.stage # "input" /\ ~lay.plan.panic)
        => lay.plan.total_height_rows
             = SumHeights(lay.imgs, 1, lay.plan.display_width_chars,
                          lay.plan.pixels_per_char_w, lay.plan.pixels_per_char_h).v
               + (Len(lay.imgs) - 1)

\* ---- C22 ----
\* C22: an image whose natural dimensions cannot be determined contributes 0
\* rows to the batch height total and does not abort the batch: the heights of
\* the other images are still summed and the scale factor and the display
\* width are computed as for the batch without that image.
C22_UndecodableCountsZero ==
    (lay.stage # "input" /\ ~lay.plan.panic)
        => LET cr == get_terminal_size(lay.env)
               px == get_terminal_pixel_size(lay.env)
               good == SelectSeq(lay.imgs, LAMBDA img : img.open)
               planGood == Layout(cr[1], cr[2], px[1], px[2], good)
           IN  /\ ~planGood.panic
               /\ lay.plan.total_height_rows = planGood.total_height_rows
               /\ lay.plan.scale_factor = planGood.scale_factor
               /\ lay.plan.scaled_display_width_chars = planGood.scaled_display_width_chars
               /\ (\A i \in 1..Len(lay.imgs) : ~lay.imgs[i].open)
                    => lay.plan.total_height_rows = 0

C22_Witness ==
    /\ lay.stage = "shown" /\ ~lay.plan.panic /\ Len(lay.imgs) = BatchSize
    /\ lay.imgs[1].open /\ ~lay.imgs[2].open /\ lay.imgs[3].open
    /\ lay.plan.total_height_rows > lay.plan.available_rows
    /\ lay.plan.available_rows > 0 /\ lay.plan.scaled_display_width_chars > 0


(***************************************************************************)
(* term.rs: abbreviate_path. A string is a sequence of bytes; "L" "T" are  *)
(* the lead and continuation byte of one two-byte UTF-8 character, every   *)
(* other byte is an ASCII character. base_path is "" at every call site    *)
(* (main.rs:195,215,220,239,274,469), the case modelled here.              *)
(***************************************************************************)
Ellipsis == <<".", ".", ".">>

\* Path::strip_prefix("") yields Components::as_path of the whole path, which
\* drops trailing separators (never the root)
RECURSIVE TrimRight(_)
TrimRight(p) ==
    IF Len(p) > (IF Len(p) > 0 /\ p[1] = "/" THEN 1 ELSE 0) /\ p[Len(p)] = "/"
    THEN TrimRight(SubSeq(p, 1, Len(p) - 1))
    ELSE p

\* str::is_char_boundary(i), i a 0-based byte offset
IsCharBoundary(s, i) == i = 0 \/ i = Len(s) \/ (i < Len(s) /\ s[i + 1] # "T")

abbreviate_path(path, max_width) ==
    LET path_str == TrimRight(path)
        avail == SatSub(max_width, Len(Ellipsis))
        start_len == (avail + 1) \div 2
        end_len == avail \div 2
        cut == Min(start_len, Len(path_str))
    IN  IF Len(path_str) <= max_width THEN [tag |-> "Ok", v |-> path_str]
        ELSE IF ~IsCharBoundary(path_str, cut) THEN [tag |-> "Panic", v |-> <<>>]
        ELSE IF Len(path_str) > start_len
                 /\ ~IsCharBoundary(path_str, Len(path_str) - end_len)
             THEN [tag |-> "Panic", v |-> <<>>]
        ELSE LET start == SubSeq(path_str, 1, cut)
                 end == IF Len(path_str) > start_len
                        THEN SubSeq(path_str, Len(path_str) - end_len + 1, Len(path_str))
                        ELSE <<>>
             IN  [tag |-> "Ok", v |-> start \o Ellipsis \o end]

MaxPathLen == 5
MaxWidth == 6
AbbrBytes == {"a", "b", "/", "L", "T"}
ValidUtf8(s) ==
    \A i \in 1..Len(s) :
        /\ s[i] = "L" => (i < Len(s) /\ s[i + 1] = "T")
        /\ s[i] = "T" => (i > 1 /\ s[i - 1] = "L")
AbbrPaths == {s \in UNION {[1..n -> AbbrBytes] : n \in 0..MaxPathLen} : ValidUtf8(s)}

AbbrInit ==
    /\ SessionIdle
    /\ lay = <<>> /\ esc = <<>>
    /\ abbr \in {[stage |-> "input", path |-> p, max_width |-> w,
                  out |-> [tag |-> "Ok", v |-> <<>>]] :
                     p \in AbbrPaths, w \in 0..MaxWidth}

AbbrCall ==
    /\ abbr.stage = "input"
    /\ abbr' = [abbr EXCEPT !.stage = "done",
                            !.out = abbreviate_path(abbr.path, abbr.max_width)]
    /\ UNCHANGED <<sessionVars, lay, esc>>

AbbrNext == AbbrCall
SpecAbbrev == AbbrInit /\ [][AbbrNext]_vars

\* ---- C9 ----
\* C9: for every path longer than max_width (max_width >= 0) the string
\* abbreviate_path returns has length <= max_width.
C9_FitsWidth ==
    (abbr.stage = "done" /\ Len(abbr.path) > abbr.max_width /\ abbr.out.tag = "Ok")
        => Len(abbr.out.v) <= abbr.max_width

\* ---- C10 ----
\* C10: for every path longer than max_width the result begins with the
\* path's first character and ends with its last character.
C10_KeepsEnds ==
    (abbr.stage = "done" /\ Len(abbr.path) > abbr.max_width /\ abbr.out.tag = "Ok")
        => /\ abbr.out.v[1] = abbr.path[1]
           /\ abbr.out.v[Len(abbr.out.v)] = abbr.path[Len(abbr.path)]

Base64Alphabet ==
    <<"A", "B", "C", "D", "E", "F", "G", "H", "I", "J", "K", "L", "M", "N", "O", "P",
      "Q", "R", "S", "T", "U", "V", "W", "X", "Y", "Z", "a", "b", "c", "d", "e", "f",
      "g", "h", "i", "j", "k", "l", "m", "n", "o", "p", "q", "r", "s", "t", "u", "v",
      "w", "x", "y", "z", "0", "1", "2", "3", "4", "5", "6", "7", "8", "9", "+", "/">>

RECURSIVE Base64Encode(_)
Base64Encode(bytes) ==
    IF Len(bytes) = 0 THEN <<>>
    ELSE IF Len(bytes) = 1
    THEN LET n == bytes[1] * 16
         IN  <<Base64Alphabet[(n \div 64) + 1], Base64Alphabet[(n % 64) + 1], "=", "=">>
    ELSE IF Len(bytes) = 2
    THEN LET n == (bytes[1] * 256 + bytes[2]) * 4
         IN  <<Base64Alphabet[(n \div 4096) + 1], Base64Alphabet[((n \div 64) % 64) + 1],
               Base64Alphabet[(n % 64) + 1], "=">>
    ELSE LET n == (bytes[1] * 256 + bytes[2]) * 256 + bytes[3]
         IN  <<Base64Alphabet[(n \div 262144) + 1], Base64Alphabet[((n \div 4096) % 64) + 1],
               Base64Alphabet[((n \div 64) % 64) + 1], Base64Alphabet[(n % 64) + 1]>>
             \o Base64Encode(SubSeq(bytes, 4, Len(bytes)))

MaxDim == 4000

\* main.rs:540-544
EncodeScale(w, h) ==
    IF w > MaxDim \/ h > MaxDim
    THEN F32Min(F32Div(F32FromNat(MaxDim), F32FromNat(Max(w, h))), F32One)
    ELSE F32One

\* load_and_display_image with the width handed to the terminal multiplied by
\* encode_scale: the encode-time downsampling applied a second time
load_and_display_image_scaled(img, png_data, display_width_chars) ==
    IF ~img.open THEN [tag |-> "Err"]
    ELSE LET encode_scale == EncodeScale(img.w, img.h)
             final_w == F32Trunc(F32Mul(F32FromNat(img.w), encode_scale))
             final_h == F32Trunc(F32Mul(F32FromNat(img.h), encode_scale))
             encoded == Base64Encode(png_data)
             size == Len(encoded)
         IN  [tag |-> "Ok",
              seq |-> [name |-> "image.png", size |-> size, inline |-> 1,
                       width |-> F32Trunc(F32Mul(F32FromNat(display_width_chars),
                                                 encode_scale)),
                       unit |-> "c", payload |-> encoded],
              info |-> [orig_w |-> img.w, orig_h |-> img.h, scaled_w |-> final_w,
                        scaled_h |-> final_h, scale_factor |-> encode_scale]]

\* img is image::open(path), png_data what write_to(Png) produced for the image
\* that is encoded; the result carries the escape sequence printed at line 569
load_and_display_image(img, png_data, display_width_chars) ==
    IF ~img.open THEN [tag |-> "Err"]
    ELSE LET encode_scale == EncodeScale(img.w, img.h)
             final_w == F32Trunc(F32Mul(F32FromNat(img.w), encode_scale))
             final_h == F32Trunc(F32Mul(F32FromNat(img.h), encode_scale))
             encoded == Base64Encode(png_data)
             size == Len(encoded)
         IN  [tag |-> "Ok",
              seq |-> [name |-> "image.png", size |-> size, inline |-> 1,
                       width |-> display_width_chars, unit |-> "c", payload |-> encoded],
              info |-> [orig_w |-> img.w, orig_h |-> img.h, scaled_w |-> final_w,
                        scaled_h |-> final_h, scale_factor |-> encode_scale]]

MaxPngLen == 4
EscBytes == {0, 77, 255}
EscWidths == {0, 1, 22, 78}
EscImages == {[open |-> TRUE, w |-> 3, h |-> 2], [open |-> TRUE, w |-> 4032, h |-> 3024],
              [open |-> FALSE, w |-> 1, h |-> 1]}

EscInit ==
    /\ SessionIdle
    /\ lay = <<>> /\ abbr = <<>>
    /\ esc \in {[stage |-> "input", img |-> i, png |-> b, width |-> w, out |-> [tag |-> "Err"]] :
                    i \in EscImages, w \in EscWidths,
                    b \in UNION {[1..n -> EscBytes] : n \in 1..MaxPngLen}}

EscCall ==
    /\ esc.stage = "input"
    /\ esc' = [esc EXCEPT !.stage = "done",
                          !.out = load_and_display_image(esc.img, esc.png, esc.width)]
    /\ UNCHANGED <<sessionVars, lay, abbr>>

EscNext == EscCall
SpecEscape == EscInit /\ [][EscNext]_vars

\* ---- C14 ----
\* C14: in the inline-image escape sequence emitted for an image the size field
\* is the number of bytes of the PNG data, the width field is the target display
\* width in columns followed by 'c', and the payload is the base64 encoding of
\* those bytes.
C14_EscapeFields ==
    (esc.stage = "done" /\ esc.out.tag = "Ok")
        => /\ esc.out.seq.size = Len(esc.png)
           /\ esc.out.seq.width = esc.width /\ esc.out.seq.unit = "c"
           /\ esc.out.seq.payload = Base64Encode(esc.png)


(***************************************************************************)
(* The world the session runs in: directories and files (macos.rs reads    *)
(* them through NSFileManager), the argument vectors, the terminals.       *)
(* A path in the WorkingSet is the id of its file.                         *)
(***************************************************************************)
Files ==
    {[id |-> 1, dir |-> "A", depth |-> 1, ext |-> TRUE,  open |-> TRUE,  w |-> 1920, h |-> 1080],
     [id |-> 2, dir |-> "A", depth |-> 1, ext |-> TRUE,  open |-> TRUE,  w |-> 600,  h |-> 800],
     [id |-> 3, dir |-> "B", depth |-> 1, ext |-> TRUE,  open |-> FALSE, w |-> 1,    h |-> 1],
     [id |-> 4, dir |-> "A", depth |-> 2, ext |-> TRUE,  open |-> TRUE,  w |-> 4032, h |-> 3024],
     [id |-> 5, dir |-> "A", depth |-> 1, ext |-> FALSE, open |-> FALSE, w |-> 1,    h |-> 1]}
    \cup {[id |-> i, dir |-> "M", depth |-> 1, ext |-> TRUE, open |-> TRUE, w |-> 640, h |-> 480] :
              i \in 6..16}
    \cup {[id |-> 17, dir |-> "C", depth |-> 1, ext |-> TRUE, open |-> TRUE, w |-> 800, h |-> 600]}
FileIds == {f.id : f \in Files}
FileOf(id) == CHOOSE f \in Files : f.id = id
ExistingDirs == {"A", "B", "C", "E", "M", "locked"}   \* Path::exists
ReadableDirs == {"A", "B", "C", "E", "M"}             \* fs::read_dir succeeds

DashTokens == {"-d", "--depth", "--test-search", "-x"}     \* starts_with('-')
\* args[i].parse::<usize>().unwrap_or(1)
ParseDepth(tok) == IF tok = "0" THEN 0 ELSE IF tok = "2" THEN 2 ELSE 1

ArgVectors ==
    { <<>>, <<"-x">>, <<"--test-search">>, <<"-d", "A">>, <<"--test-search", "A">>,
      <<"--test-search", "missing">>, <<"missing">>, <<"A", "locked">>, <<"E">>,
      <<"-d", "0", "A">>, <<"--depth", "2", "A">>, <<"A">>, <<"B">>,
      <<"A", "B">>, <<"A", "A">>,
      <<"--test-search", "M">>, <<"--test-search", "-d", "2", "A", "locked">>,
      <<"--test-search", "A", "-x">>, <<"-d", "-x", "missing">>, <<"-d">>,
      <<"-d", "-x", "B">> }

Ws(r, c, x, y) == [ws_row |-> r, ws_col |-> c, ws_xpixel |-> x, ws_ypixel |-> y]
TermEnvs ==
    { [isatty |-> TRUE,  ioctlOk |-> TRUE,  ws |-> Ws(24, 80, 640, 384)],
      [isatty |-> FALSE, ioctlOk |-> FALSE, ws |-> Ws(0, 0, 0, 0)],
      [isatty |-> TRUE,  ioctlOk |-> TRUE,  ws |-> Ws(7, 80, 640, 112)],
      [isatty |-> TRUE,  ioctlOk |-> TRUE,  ws |-> Ws(24, 10, 80, 384)],
      [isatty |-> TRUE,  ioctlOk |-> TRUE,  ws |-> Ws(0, 80, 640, 384)],
      [isatty |-> TRUE,  ioctlOk |-> TRUE,  ws |-> Ws(24, 80, 640, 12)],
      [isatty |-> TRUE,  ioctlOk |-> TRUE,  ws |-> Ws(0, 0, 0, 0)] }

(***************************************************************************)
(* macos.rs and the image crate, as the session uses them.                 *)
(***************************************************************************)
\* the ids in 1..n that satisfy Keep, in increasing order (enumeration order)
RECURSIVE IdsUpTo(_, _)
IdsUpTo(n, S) ==
    IF n = 0 THEN <<>>
    ELSE IdsUpTo(n - 1, S) \o (IF n \in S THEN <<n>> ELSE <<>>)

find_images(path, max_depth) ==
    IdsUpTo(Cardinality(FileIds),
            {f.id : f \in {g \in Files : g.dir = path /\ g.depth <= max_depth /\ g.ext}})

\* image::open(path) on the current file system
ImageOpen(id, gone) ==
    LET f == FileOf(id)
    IN  [open |-> f.open /\ id \notin gone, w |-> f.w, h |-> f.h]

\* the PNG bytes the encoder produces for a file: the head of the PNG signature
\* and a byte that tells the files apart
PngData(id) == <<137, 80, id>>

\* load_and_display_image(path, width) on the current file system
Render(id, gone, width) == load_and_display_image(ImageOpen(id, gone), PngData(id), width)

\* Ok exactly when the file decodes (PNG encoding of a decoded image into
\* memory does not fail)
Displays(id, gone) == Render(id, gone, 0).tag = "Ok"

\* move_to_trash: what trashItemAtURL can report; a file that is gone cannot be trashed
TrashOutcomes(id, gone) == IF id \in gone THEN {FALSE} ELSE BOOLEAN

\* A retain that drops nothing
RetainNothing(seq, path) == seq

\* images.retain(|p| p != path)
Retain(seq, path) == SelectSeq(seq, LAMBDA p : p # path)

\* Samples with replacement: the n positions need not be distinct
SamplesWithReplacement(seq, n) ==
    {[i \in 1..n |-> seq[pos[i]]] : pos \in [1..n -> 1..Len(seq)]}

\* choose_multiple(rng, n): n entries at distinct positions, in any order
Samples(seq, n) ==
    {[i \in 1..n |-> seq[pos[i]]] :
        pos \in {q \in [1..n -> 1..Len(seq)] : \A i, j \in 1..n : i # j => q[i] # q[j]}}


(***************************************************************************)
(* main.rs: the session. One action per step of main between two blocking  *)
(* calls; a step that ends the process sets pc = "exited".                 *)
(***************************************************************************)
parseVars == <<target_paths, depth, test_search>>
geomVars == <<cols, rows, px_width, px_height>>
planVars == <<scale_factor, scaled_display_width_chars>>
batchVars == <<displayed, decisions, idx>>
histVars == <<decided, sizeBefore, binFailed>>
fixedVars == <<args, overflowChecks, lay, abbr, esc>>
searchVars == <<discovered, searchOut>>

PromptMargin == 20

Exit(path, code, raw) ==
    pc' = "exited" /\ exitPath' = path /\ exitCode' = code /\ rawMode' = raw
\* a panic unwinds main without restoring the terminal
Panic == Exit("panic", 101, rawMode)
Goto(p) == pc' = p /\ UNCHANGED <<exitPath, exitCode, rawMode>>
\* what a step sends out: the images handed to load_and_display_image with the
\* width argument of each call, and the paths handed to move_to_trash
EmitAt(cmd, shown, width, trash) ==
    /\ lastCmd' = cmd /\ rendered' = shown /\ trashCalls' = trash
    /\ renderWidth' = [i \in 1..Len(shown) |-> Render(shown[i], trashed, width).seq.width]
Emit(cmd, shown, trash) == EmitAt(cmd, shown, scaled_display_width_chars, trash)

InitWith(vectors) ==
    /\ pc = "main"
    /\ args \in vectors
    /\ overflowChecks \in BOOLEAN
    /\ target_paths = <<>> /\ depth = 1 /\ test_search = FALSE
    /\ rawMode = FALSE /\ images = <<>> /\ chosen = <<>>
    /\ cols = 0 /\ rows = 0 /\ px_width = 0 /\ px_height = 0
    /\ scale_factor = F32One /\ scaled_display_width_chars = 0
    /\ displayed = <<>> /\ decisions = <<>> /\ idx = 0 /\ trashed = {}
    /\ exitPath = "none" /\ exitCode = -1
    /\ lastCmd = "none" /\ rendered = <<>> /\ trashCalls = <<>>
    /\ decided = {} /\ sizeBefore = 0 /\ binFailed = FALSE
    /\ renderWidth = <<>> /\ discovered = FALSE /\ searchOut = NoSearchOut
    /\ lay = <<>> /\ abbr = <<>> /\ esc = <<>>

Init == InitWith(ArgVectors)

\* main.rs:33-53
RECURSIVE ParseLoop(_, _, _)
ParseLoop(a, i, acc) ==
    IF i > Len(a) THEN acc
    ELSE IF a[i] \in {"-d", "--depth"}
         THEN ParseLoop(a, i + 2,
                        IF i + 1 <= Len(a) THEN [acc EXCEPT !.depth = ParseDepth(a[i + 1])]
                        ELSE acc)
    ELSE IF a[i] = "--test-search"
         THEN ParseLoop(a, i + 1, [acc EXCEPT !.test_search = TRUE])
    ELSE IF a[i] \notin DashTokens
         THEN ParseLoop(a, i + 1, [acc EXCEPT !.target_paths = Append(@, a[i])])
    ELSE [acc EXCEPT !.unknown = TRUE]

\* main.rs:17-58
ParseArgs ==
    /\ pc = "main"
    /\ LET r == ParseLoop(args, 1, [target_paths |-> <<>>, depth |-> 1,
                                     test_search |-> FALSE, unknown |-> FALSE])
       IN  /\ target_paths' = r.target_paths /\ depth' = r.depth
           /\ test_search' = r.test_search
           /\ IF Len(args) = 0 THEN Exit("usage", 1, rawMode)
              ELSE IF r.unknown THEN Exit("unknown_option", 1, rawMode)
              ELSE IF r.target_paths = <<>> THEN Exit("no_path", 1, rawMode)
              ELSE IF r.test_search THEN Goto("test_search")
              ELSE Goto("verify")
    /\ Emit("parse", <<>>, <<>>)
    /\ UNCHANGED <<images, chosen, geomVars, planVars, batchVars, trashed, histVars, fixedVars, searchVars>>

\* the scan of main.rs:62-66 and 107-111
RECURSIVE ScanAll(_, _, _)
ScanAll(paths, i, d) ==
    IF i > Len(paths) THEN <<>>
    ELSE find_images(paths[i], d) \o ScanAll(paths, i + 1, d)

TestSearchLimit == 10

\* TestSearchListing without the take(10): every match is printed
TestSearchListingAll(all_images) == all_images

\* all_images.iter().take(10), main.rs:68
TestSearchListing(all_images) ==
    SubSeq(all_images, 1, Min(Len(all_images), TestSearchLimit))

\* main.rs:60-75
TestSearch ==
    /\ pc = "test_search"
    /\ LET all_images == ScanAll(target_paths, 1, depth)
       IN  searchOut' = [count |-> Len(all_images),
                         listed |-> TestSearchListing(all_images),
                         more |-> IF Len(all_images) > TestSearchLimit
                                  THEN Len(all_images) - TestSearchLimit ELSE 0]
    /\ discovered' = TRUE
    /\ Exit("test_search", 0, rawMode)
    /\ Emit("test_search", <<>>, <<>>)
    /\ UNCHANGED <<parseVars, images, chosen, geomVars, planVars, batchVars, trashed,
                   histVars, fixedVars>>

\* VerifyPaths without the read_dir check of main.rs:83: only existence is verified
VerifyPathsExistsOnly ==
    /\ pc = "verify"
    /\ IF \E i \in 1..Len(target_paths) : target_paths[i] \notin ExistingDirs
       THEN Exit("missing_path", 1, rawMode)
       ELSE Goto("raw")
    /\ Emit("verify", <<>>, <<>>)
    /\ UNCHANGED <<parseVars, images, chosen, geomVars, planVars, batchVars, trashed,
                   histVars, fixedVars, searchVars>>

\* main.rs:77-93
VerifyPaths ==
    /\ pc = "verify"
    /\ IF \E i \in 1..Len(target_paths) :
              /\ target_paths[i] \notin ExistingDirs
              /\ \A j \in 1..(i - 1) : target_paths[j] \in ReadableDirs
       THEN Exit("missing_path", 1, rawMode)
       ELSE IF \E i \in 1..Len(target_paths) : target_paths[i] \notin ReadableDirs
       THEN Exit("no_permission", 1, rawMode)
       ELSE Goto("raw")
    /\ Emit("verify", <<>>, <<>>)
    /\ UNCHANGED <<parseVars, images, chosen, geomVars, planVars, batchVars, trashed,
                   histVars, fixedVars, searchVars>>

\* main.rs:95-104 with term.rs:78-96; a failing tcgetattr/tcsetattr panics in expect
EnableRawMode ==
    /\ pc = "raw"
    /\ \E ok \in BOOLEAN :
           IF ok THEN pc' = "scan" /\ rawMode' = TRUE /\ UNCHANGED <<exitPath, exitCode>>
           ELSE Panic
    /\ chosen' = <<>>
    /\ Emit("raw", <<>>, <<>>)
    /\ UNCHANGED <<parseVars, images, geomVars, planVars, batchVars, trashed, histVars, fixedVars, searchVars>>

\* main.rs:106-115
ScanImages ==
    /\ pc = "scan"
    /\ images' = ScanAll(target_paths, 1, depth)
    /\ IF images' = <<>> THEN Exit("no_images", 0, rawMode) ELSE Goto("loop")
    /\ discovered' = TRUE
    /\ Emit("scan", <<>>, <<>>)
    /\ UNCHANGED <<parseVars, chosen, geomVars, planVars, batchVars, trashed, histVars,
                   fixedVars, searchOut>>

\* main.rs:117-142; the break of line 127 runs into disable_raw_mode at line 395
SelectBatch ==
    /\ pc = "loop"
    /\ \E env \in TermEnvs :
           /\ cols' = get_terminal_size(env)[1] /\ rows' = get_terminal_size(env)[2]
           /\ px_width' = get_terminal_pixel_size(env)[1]
           /\ px_height' = get_terminal_pixel_size(env)[2]
    /\ IF images = <<>>
       THEN Exit("all_reviewed", 0, FALSE) /\ UNCHANGED chosen
       ELSE /\ Goto("render")
            /\ IF chosen = <<>>
               THEN \E b \in Samples(images, Min(BatchSize, Len(images))) : chosen' = <<b>>
               ELSE UNCHANGED chosen
    /\ sizeBefore' = Len(images)
    /\ Emit("select", <<>>, <<>>)
    /\ UNCHANGED <<parseVars, images, planVars, batchVars, trashed, decided, binFailed, fixedVars, searchVars>>

\* GoToSlot with the prompt line reading decisions.get(i) instead of decisions[i]:
\* a missing decision no longer panics
GoToSlotUnchecked(i, disp, dec) ==
    /\ idx' = i
    /\ binFailed' = FALSE
    /\ IF i >= Len(disp) THEN Goto("complete")
       ELSE IF cols < PromptMargin /\ overflowChecks THEN Panic
       ELSE Goto("prompt")

\* the head of the slot loop, main.rs:237-259: the path budget cols - 20 and the
\* prompt line, which reads decisions[i] for every slot i before the current one
GoToSlot(i, disp, dec) ==
    /\ idx' = i
    /\ binFailed' = FALSE
    /\ IF i >= Len(disp) THEN Goto("complete")
       ELSE IF cols < PromptMargin /\ overflowChecks THEN Panic
       ELSE IF Len(dec) < i THEN Panic
       ELSE Goto("prompt")

\* DisplayedOf with the render loop ending at the first image that fails
RECURSIVE DisplayedUntilFailure(_, _)
DisplayedUntilFailure(batch, gone) ==
    IF batch = <<>> \/ ~Displays(Head(batch), gone) THEN <<>>
    ELSE <<Head(batch)>> \o DisplayedUntilFailure(Tail(batch), gone)

\* the render loop of main.rs:211-224: the images of the batch that
\* load_and_display_image accepts, in batch order
DisplayedOf(batch, gone) == SelectSeq(batch, LAMBDA p : Displays(p, gone))

\* main.rs:167-259
RenderBatch ==
    /\ pc = "render"
    /\ LET batch == chosen[1]
           plan == Layout(cols, rows, px_width, px_height,
                          [i \in 1..Len(batch) |-> ImageOpen(batch[i], trashed)])
           shown == DisplayedOf(batch, trashed)
       IN  IF plan.panic
           THEN /\ Panic /\ Emit("render", <<>>, <<>>)
                /\ UNCHANGED <<planVars, batchVars, binFailed>>
           ELSE /\ scale_factor' = plan.scale_factor
                /\ scaled_display_width_chars' = plan.scaled_display_width_chars
                /\ displayed' = shown
                /\ decisions' = <<>>
                /\ EmitAt("render", shown, plan.scaled_display_width_chars, <<>>)
                /\ IF shown = <<>>
                   THEN Exit("no_display", 0, FALSE) /\ UNCHANGED <<idx, binFailed>>
                   ELSE GoToSlot(0, shown, <<>>)
    /\ UNCHANGED <<parseVars, images, chosen, geomVars, trashed, decided, sizeBefore, fixedVars, searchVars>>


(***************************************************************************)
(* The slot prompt, main.rs:241-358: read_single_char returned Ok(c) and   *)
(* the key is handled, or it returned Err.                                 *)
(***************************************************************************)
\* the image of the first slot, whichever slot is being prompted
FirstSlotPath == displayed[1]

\* let (path, info) = &displayed[idx], the slot being prompted (idx counts from 0)
CurrentPath == displayed[idx + 1]
StaySameSlot == Goto("prompt") /\ UNCHANGED <<images, batchVars, trashed, decided>>

\* Ctrl+L, main.rs:266-284
KeyRedraw ==
    /\ pc = "prompt"
    /\ Emit("redraw",
            SelectSeq(SubSeq(displayed, idx + 1, Len(displayed)),
                      LAMBDA p : Displays(p, trashed)),
            <<>>)
    /\ StaySameSlot
    /\ UNCHANGED <<parseVars, chosen, geomVars, planVars, sizeBefore, binFailed, fixedVars, searchVars>>

\* display_full_scaling_info, main.rs:448-449,485: the rows of each displayed image
\* are divided by px_per_char_h
BatchInfoPanics == px_height \div Max(rows, 1) = 0

\* 'I', main.rs:288-296
KeyBatchInfo ==
    /\ pc = "prompt"
    /\ Emit("batch_info", <<>>, <<>>)
    /\ IF BatchInfoPanics
       THEN Panic /\ UNCHANGED <<images, batchVars, trashed, decided>>
       ELSE StaySameSlot
    /\ UNCHANGED <<parseVars, chosen, geomVars, planVars, sizeBefore, binFailed, fixedVars, searchVars>>

\* main.rs:302-303,309: px_height / rows, px_width / cols, and a division by the former
ImageInfoPanics == rows = 0 \/ cols = 0 \/ px_height \div rows = 0

\* 'i', main.rs:297-317
KeyImageInfo ==
    /\ pc = "prompt"
    /\ Emit("image_info", <<>>, <<>>)
    /\ IF ImageInfoPanics
       THEN Panic /\ UNCHANGED <<images, batchVars, trashed, decided>>
       ELSE StaySameSlot
    /\ UNCHANGED <<parseVars, chosen, geomVars, planVars, sizeBefore, binFailed, fixedVars, searchVars>>

\* decisions.push(c), main.rs:322,329
PushDecision(dec, c) == Append(dec, c)

\* 'k', main.rs:321-326
KeyKeep ==
    /\ pc = "prompt"
    /\ Emit("keep", <<>>, <<>>)
    /\ decisions' = PushDecision(decisions, "k")
    /\ images' = Retain(images, CurrentPath)
    /\ decided' = decided \cup {CurrentPath}
    /\ GoToSlot(idx + 1, displayed, decisions')
    /\ UNCHANGED <<parseVars, chosen, geomVars, planVars, displayed, trashed, sizeBefore,
                   fixedVars, searchVars>>

\* KeyBin with the result of move_to_trash ignored: the slot is decided as binned
\* whether or not the file was moved
KeyBinIgnoresResult ==
    /\ pc = "prompt"
    /\ Emit("bin", <<>>, <<CurrentPath>>)
    /\ \E ok \in TrashOutcomes(CurrentPath, trashed) :
           /\ decisions' = PushDecision(decisions, "b")
           /\ images' = Retain(images, CurrentPath)
           /\ trashed' = IF ok THEN trashed \cup {CurrentPath} ELSE trashed
           /\ decided' = decided \cup {CurrentPath}
           /\ GoToSlot(idx + 1, displayed, decisions')
           /\ UNCHANGED displayed
    /\ UNCHANGED <<parseVars, chosen, geomVars, planVars, sizeBefore, fixedVars, searchVars>>

\* 'b', main.rs:327-337
KeyBin ==
    /\ pc = "prompt"
    /\ Emit("bin", <<>>, <<CurrentPath>>)
    /\ \E ok \in TrashOutcomes(CurrentPath, trashed) :
           IF ok
           THEN /\ decisions' = PushDecision(decisions, "b")
                /\ images' = Retain(images, CurrentPath)
                /\ trashed' = trashed \cup {CurrentPath}
                /\ decided' = decided \cup {CurrentPath}
                /\ GoToSlot(idx + 1, displayed, decisions')
                /\ UNCHANGED displayed
           ELSE /\ StaySameSlot
                /\ binFailed' = TRUE
    /\ UNCHANGED <<parseVars, chosen, geomVars, planVars, sizeBefore, fixedVars, searchVars>>

\* macos::quicklook_preview: fire-and-forget, it opens an external viewer on the
\* image and returns without touching the session
quicklook_preview(path) == path \in FileIds

\* ' ' or 'l', main.rs:338-342
KeyPreview ==
    /\ pc = "prompt"
    /\ quicklook_preview(CurrentPath)
    /\ Emit("preview", <<>>, <<>>)
    /\ StaySameSlot
    /\ UNCHANGED <<parseVars, chosen, geomVars, planVars, sizeBefore, binFailed, fixedVars, searchVars>>

\* KeyQuit as a break out of the prompt loop: the remaining slots are skipped but
\* the session goes on to the BatchComplete prompt
KeyQuitBreaks ==
    /\ pc = "prompt"
    /\ Emit("quit", <<>>, <<>>)
    /\ Goto("complete")
    /\ UNCHANGED <<parseVars, images, chosen, geomVars, planVars, batchVars, trashed,
                   histVars, fixedVars, searchVars>>

\* 'q', main.rs:343-347
KeyQuit ==
    /\ pc = "prompt"
    /\ Emit("quit", <<>>, <<>>)
    /\ Exit("quit_slot", 0, FALSE)
    /\ UNCHANGED <<parseVars, images, chosen, geomVars, planVars, batchVars, trashed,
                   histVars, fixedVars, searchVars>>

\* any other key, main.rs:348-351
KeyInvalid ==
    /\ pc = "prompt"
    /\ Emit("invalid", <<>>, <<>>)
    /\ StaySameSlot
    /\ UNCHANGED <<parseVars, chosen, geomVars, planVars, sizeBefore, binFailed, fixedVars, searchVars>>

\* read_single_char returned Err: the break of main.rs:355-357 leaves the slot
ReadError ==
    /\ pc = "prompt"
    /\ Emit("read_error", <<>>, <<>>)
    /\ GoToSlot(idx + 1, displayed, decisions)
    /\ UNCHANGED <<parseVars, images, chosen, geomVars, planVars, displayed, decisions,
                   trashed, decided, sizeBefore, fixedVars, searchVars>>

(***************************************************************************)
(* The BatchComplete prompt, main.rs:361-391.                              *)
(***************************************************************************)
BcFrame == UNCHANGED <<parseVars, images, geomVars, planVars, batchVars, trashed,
                       histVars, fixedVars, searchVars>>

\* 'c', main.rs:368-372
BcContinue ==
    /\ pc = "complete"
    /\ Emit("continue", <<>>, <<>>)
    /\ chosen' = <<>>
    /\ Goto("loop")
    /\ BcFrame

\* 'r', main.rs:373-377
BcRestart ==
    /\ pc = "complete"
    /\ Emit("restart", <<>>, <<>>)
    /\ chosen' = <<>>
    /\ Goto("loop")
    /\ BcFrame

\* 'q', main.rs:378-382
BcQuit ==
    /\ pc = "complete"
    /\ Emit("quit", <<>>, <<>>)
    /\ Exit("quit_batch", 0, FALSE)
    /\ UNCHANGED chosen
    /\ BcFrame

\* any other key, main.rs:383-386
BcInvalid ==
    /\ pc = "complete"
    /\ Emit("invalid", <<>>, <<>>)
    /\ Goto("complete")
    /\ UNCHANGED chosen
    /\ BcFrame

\* read_single_char returned Err: the break of main.rs:388-390 goes round the
\* outer loop with the batch still carried
BcReadError ==
    /\ pc = "complete"
    /\ Emit("read_error", <<>>, <<>>)
    /\ Goto("loop")
    /\ UNCHANGED chosen
    /\ BcFrame

Next ==
    \/ ParseArgs \/ TestSearch \/ VerifyPaths \/ EnableRawMode \/ ScanImages
    \/ SelectBatch \/ RenderBatch
    \/ KeyRedraw \/ KeyBatchInfo \/ KeyImageInfo \/ KeyKeep \/ KeyBin \/ KeyPreview
    \/ KeyQuit \/ KeyInvalid \/ ReadError
    \/ BcContinue \/ BcRestart \/ BcQuit \/ BcInvalid \/ BcReadError

Spec == Init /\ [][Next]_vars

(***************************************************************************)
(* The session with a user who answers: every read of a key succeeds, a    *)
(* slot prompt is eventually answered with keep or a bin that succeeds     *)
(* (any non-decision key and failed bins may come first), the              *)
(* BatchComplete prompt is answered with continue or restart. The program  *)
(* itself runs on whenever it is not waiting for a key.                    *)
(***************************************************************************)
LiveArgVectors ==
    { <<"A">>, <<"A", "B">>, <<"A", "A">>, <<"--depth", "2", "A", "C">> }

LiveInit == InitWith(LiveArgVectors)

\* The steps the program takes without waiting for a key, short of the render pass
ProgramStep ==
    \/ ParseArgs \/ VerifyPaths \/ EnableRawMode \/ ScanImages
    \/ SelectBatch

\* The render pass is enabled exactly at "render" and every one of its steps
\* leaves "render" (for a prompt, an exit or a panic), so weak fairness of the
\* render pass is the statement that the session is never at "render" for ever.
RenderPassRuns == []<>(pc # "render")

KeyBinOk == KeyBin /\ trashed' # trashed

LiveNext ==
    \/ ParseArgs \/ VerifyPaths \/ EnableRawMode \/ ScanImages
    \/ SelectBatch \/ RenderBatch
    \/ KeyRedraw \/ KeyBatchInfo \/ KeyImageInfo \/ KeyKeep \/ KeyBin \/ KeyPreview
    \/ KeyInvalid
    \/ BcContinue \/ BcRestart

SpecLive ==
    /\ LiveInit /\ [][LiveNext]_vars
    /\ WF_vars(ProgramStep)
    /\ RenderPassRuns
    /\ WF_vars(KeyKeep \/ KeyBinOk)
    /\ WF_vars(BcContinue \/ BcRestart)


(***************************************************************************)
(* Claims about the session.                                               *)
(***************************************************************************)
IsPrefix(a, b) == Len(a) <= Len(b) /\ SubSeq(b, 1, Len(a)) = a
DistinctPaths == Cardinality(Range(target_paths)) = Len(target_paths)

\* ---- C1 ----
\* C1: raw mode, once enabled, is restored on every path by which the process
\* ends: no terminal state has raw mode still enabled.
C1_RawModeRestored == pc = "exited" => ~rawMode

\* ---- C2 ----
\* C2: when a batch is complete the WorkingSet has shrunk by exactly the number
\* of slots that got a Keep or a successful Bin (one decision is recorded for
\* each), and continue or restart alone leave the WorkingSet as it is (the
\* first part stated here for path arguments that are pairwise distinct).
C2_ShrinksByDecisions ==
    [][ /\ (pc' = "complete" /\ DistinctPaths')
            => (Len(images') = sizeBefore' - Len(decisions'))
        /\ (lastCmd' \in {"continue", "restart"} /\ pc = "complete") => images' = images
      ]_vars

\* ---- C3 ----
\* C3: a slot whose Bin failed is left (for another slot, for BatchComplete or
\* by a normal exit) only by a Keep, a successful Bin or a Quit.
C3_BinFailedStays ==
    [][ (/\ pc = "prompt" /\ binFailed
         /\ ~(pc' = "prompt" /\ idx' = idx)
         /\ exitPath' # "panic")
        => \/ lastCmd' \in {"keep", "quit"}
           \/ lastCmd' = "bin" /\ decisions' = Append(decisions, "b")
      ]_vars

\* ---- C6 ----
\* C6: an image that got a Keep or a successful Bin is never rendered and
\* never prompted for again (stated here for path arguments that are pairwise
\* distinct, the case in which every image is in the WorkingSet once).
C6_DecidedNeverShown ==
    DistinctPaths =>
        /\ \A i \in 1..Len(rendered) : rendered[i] \notin decided
        /\ pc = "prompt" => CurrentPath \notin decided

\* ---- C7 ----
\* C7: the session ends (other than by a panic) only through a quit command
\* or with the WorkingSet empty.
C7_EndsByQuitOrEmpty ==
    (pc = "exited" /\ exitPath \notin {"panic", "usage", "unknown_option", "no_path",
                                        "test_search", "missing_path", "no_permission"})
        => (exitPath \in {"quit_slot", "quit_batch"} \/ images = <<>>)

C12_TestSearchOnly ==
    (test_search /\ target_paths # <<>> /\ exitPath # "unknown_option")
        => /\ ~rawMode /\ chosen = <<>> /\ rendered = <<>>
           /\ trashCalls = <<>> /\ trashed = {}
           /\ pc \in {"test_search", "exited"}
           /\ lastCmd \in {"parse", "test_search"}
           /\ pc = "exited"
                => /\ exitPath = "test_search" /\ exitCode = 0 /\ discovered
                   /\ searchOut.count = Len(ScanAll(target_paths, 1, depth))
                   /\ Len(searchOut.listed) <= 10
                   /\ IsPrefix(searchOut.listed, ScanAll(target_paths, 1, depth))

C12_Witness ==
    /\ pc = "exited" /\ exitPath = "test_search" /\ exitCode = 0
    /\ searchOut.count = 11 /\ Len(searchOut.listed) = 10 /\ searchOut.more = 1

\* ---- C13 ----
\* C13: an unknown flag or the absence of any path argument ends the program
\* with status 1 before raw mode is enabled and before any discovery,
\* rendering or trash operation; so does a path that does not exist or cannot
\* be read when --test-search is not given. (A token in the value position
\* of -d/--depth is the depth value, not a flag.)
C13_EarlyExit ==
    (/\ pc # "main"
     /\ \/ Len(args) = 0
        \/ \E i \in 1..Len(args) :
               args[i] = "-x" /\ (i = 1 \/ args[i - 1] \notin {"-d", "--depth"})
        \/ target_paths = <<>>
        \/ ~test_search /\ \E i \in 1..Len(target_paths) : target_paths[i] \notin ReadableDirs)
        => /\ ~rawMode /\ ~discovered /\ chosen = <<>>
           /\ rendered = <<>> /\ trashCalls = <<>> /\ trashed = {}
           /\ pc \in {"verify", "exited"}
           /\ pc = "exited"
                => /\ exitCode = 1
                   /\ exitPath \in {"usage", "unknown_option", "no_path",
                                    "missing_path", "no_permission"}

C13_Witness ==
    /\ pc = "exited" /\ args = <<"A", "locked">> /\ exitPath = "no_permission"
    /\ exitCode = 1 /\ ~rawMode /\ ~discovered

\* ---- C17 ----
\* C17: within one pass of the batch loop every render request, the initial
\* rendering of each image and every re-render of a redraw, uses the same width
\* floor(available width in columns x global scale factor); the width does not
\* depend on the image and is not changed by the encode-time downsampling of
\* images whose larger dimension exceeds 4000 px.
C17_OneWidthPerPass ==
    /\ \A i \in 1..Len(renderWidth) :
           renderWidth[i]
             = F32Trunc(F32Mul(F32FromNat(SatSub(cols, WidthMarginCols)), scale_factor))
    /\ pc \in {"prompt", "complete"}
         => scaled_display_width_chars
              = F32Trunc(F32Mul(F32FromNat(SatSub(cols, WidthMarginCols)), scale_factor))

C17_Witness ==
    /\ pc = "prompt" /\ lastCmd = "redraw" /\ idx = 1
    /\ Len(rendered) = 2 /\ rendered[2] = 4
    /\ scale_factor # F32One /\ renderWidth[2] > 0

\* ---- C18 ----
\* C18: a new batch is sampled only when no batch is carried over; a sampled
\* batch has exactly min(3, |WorkingSet|) entries, taken from distinct
\* positions of the current WorkingSet, so every member of the batch is a
\* member of the WorkingSet when it is sampled.
C18_SampleFromWorkingSet ==
    [][ /\ (chosen' # chosen /\ chosen' # <<>>)
             => /\ pc = "loop" /\ chosen = <<>> /\ images' = images
                /\ Len(chosen'[1]) = Min(3, Len(images))
                /\ \E pos \in [1..Len(chosen'[1]) -> 1..Len(images)] :
                       /\ \A i, j \in 1..Len(chosen'[1]) : i # j => pos[i] # pos[j]
                       /\ \A i \in 1..Len(chosen'[1]) : chosen'[1][i] = images[pos[i]]
                /\ Range(chosen'[1]) \subseteq Range(images)
        /\ (pc = "loop" /\ chosen # <<>>) => chosen' = chosen
        /\ (pc = "loop" /\ chosen = <<>> /\ images # <<>>) => chosen' # <<>>
      ]_vars

C18_Witness ==
    /\ pc = "render" /\ lastCmd = "select" /\ Len(images) = 4
    /\ Len(chosen[1]) = 3 /\ chosen[1][1] = chosen[1][3]

\* ---- C19 ----
\* C19: redraw (Ctrl+L), batch-info ('I'), image-info ('i'), preview (space or
\* 'l') and any unrecognized key leave the slot index, the decisions, the
\* WorkingSet, the sampled batch and the displayed subset unchanged and return
\* to the prompt of the same slot; redraw re-renders exactly the slots from the
\* current one to the last.
C19_NonDecisionFrame ==
    [][ (pc = "prompt"
         /\ lastCmd' \in {"redraw", "batch_info", "image_info", "preview", "invalid"})
            => /\ pc' = "prompt" /\ idx' = idx
               /\ decisions' = decisions /\ images' = images
               /\ chosen' = chosen /\ displayed' = displayed
               /\ trashCalls' = <<>>
               /\ rendered' = IF lastCmd' = "redraw"
                              THEN SubSeq(displayed, idx + 1, Len(displayed))
                              ELSE <<>>
      ]_vars

\* ---- C20 ----
\* C20: when the trash operation invoked by a bin command reports failure, no
\* decision is recorded for the slot (in particular no Keep), the slot index
\* does not advance and the WorkingSet is unchanged.
C20_BinFailureNoDecision ==
    [][ (pc = "prompt" /\ lastCmd' = "bin" /\ trashed' = trashed)
            => /\ decisions' = decisions /\ decided' = decided
               /\ idx' = idx /\ pc' = "prompt"
               /\ images' = images /\ displayed' = displayed
      ]_vars

C20_Witness ==
    /\ pc = "prompt" /\ lastCmd = "bin" /\ binFailed /\ idx = 1
    /\ decisions = <<"k">> /\ trashCalls = <<CurrentPath>>
    /\ CurrentPath \in Range(images) /\ CurrentPath \notin trashed

\* ---- C21 ----
\* C21: an image whose rendering fails is left out of the displayed subset of
\* the batch (no slot, no decision) but stays in the WorkingSet; the other
\* images of the batch are still rendered, in batch order, and prompted.
C21_RenderFailureSkipped ==
    [][ /\ (pc = "render" /\ exitPath' # "panic")
             => /\ images' = images
                /\ rendered' = SelectSeq(chosen[1], LAMBDA p : ImageOpen(p, trashed).open)
                /\ displayed' = rendered'
                /\ \A i \in 1..Len(chosen[1]) :
                       ~ImageOpen(chosen[1][i], trashed).open
                           => chosen[1][i] \notin Range(displayed')
                /\ displayed' # <<>> => (pc' = "prompt" /\ idx' = 0)
        /\ (pc = "prompt" /\ images' # images)
             => /\ Range(images) \ Range(images') = {CurrentPath}
                /\ ImageOpen(CurrentPath, trashed).open
      ]_vars

C21_Witness ==
    /\ pc = "prompt" /\ lastCmd = "render" /\ idx = 0
    /\ chosen[1] = <<1, 3, 2>> /\ displayed = <<1, 2>> /\ rendered = <<1, 2>>
    /\ 3 \in Range(images)

\* ---- C23 ----
\* C23: a quit command at any slot prompt restores the terminal mode and ends
\* the process with success status at once: no further slot is prompted, no
\* further image is rendered or trashed, the BatchComplete prompt is never
\* reached (a process that has exited takes no further step).
C23_QuitAtSlot ==
    [][ /\ (pc = "prompt" /\ lastCmd' = "quit")
             => /\ pc' = "exited" /\ exitPath' = "quit_slot" /\ exitCode' = 0
                /\ ~rawMode'
                /\ rendered' = <<>> /\ trashCalls' = <<>> /\ trashed' = trashed
                /\ images' = images /\ decisions' = decisions /\ idx' = idx
        /\ pc # "exited"
      ]_vars

C23_Witness ==
    /\ pc = "exited" /\ exitPath = "quit_slot" /\ exitCode = 0 /\ ~rawMode
    /\ idx = 1 /\ Len(displayed) = 3 /\ decisions = <<"b">> /\ lastCmd = "quit"

\* ---- C24 ----
\* C24: every transition from the BatchComplete prompt back to batch selection
\* clears the carried batch, so the next batch is freshly sampled from the
\* current WorkingSet; an unrecognized key at the BatchComplete prompt changes
\* nothing and re-prompts; quit restores the terminal and exits with status 0.
C24_BatchCompleteExits ==
    [][ /\ (pc = "complete" /\ pc' = "loop") => chosen' = <<>>
        /\ (pc = "loop" /\ pc' = "render") => chosen = <<>>
        /\ (pc = "complete" /\ lastCmd' = "invalid")
             => /\ pc' = "complete" /\ chosen' = chosen /\ images' = images
                /\ displayed' = displayed /\ decisions' = decisions /\ idx' = idx
                /\ trashed' = trashed /\ rawMode' = rawMode
        /\ (pc = "complete" /\ lastCmd' = "quit")
             => /\ pc' = "exited" /\ exitCode' = 0 /\ ~rawMode'
      ]_vars

\* ---- C25 ----
\* C25: if every sampled image renders, the user eventually answers every slot
\* prompt with keep or a successful bin and always answers the BatchComplete
\* prompt with continue or restart, then each batch strictly shrinks the
\* WorkingSet and the session eventually reaches the finished state with an
\* empty WorkingSet. (A pass in which a sampled image did not render, and a
\* process that panicked, are outside the hypothesis.)
C25_SessionTerminates ==
    /\ [][ (pc = "prompt" /\ pc' = "complete" /\ Len(displayed) = Len(chosen[1]))
               => Len(images') < sizeBefore ]_vars
    /\ (pc = "loop")
          ~> \/ pc = "exited" /\ exitPath = "all_reviewed" /\ images = <<>>
             \/ lastCmd = "render" /\ Len(displayed) < Len(chosen[1])
             \/ exitPath = "panic"

C25_Witness ==
    /\ pc = "exited" /\ exitPath = "all_reviewed" /\ images = <<>> /\ ~rawMode
    /\ args = <<"--depth", "2", "A", "C">> /\ decided = {1, 2, 4, 17}
    /\ trashed = {2, 17} /\ Len(displayed) = 1

\* ---- C26 ----
\* C26: for every terminal geometry (zero values, a pixel height below the row
\* count and a pixel width below the column count included) no layout or info
\* computation divides by zero: the batch height calculation, the image-info
\* handler and the batch-info handler each divide by values that are at least 1.
C26_NoDivisionByZero ==
    [][ /\ pc = "render"
             => ~Layout(cols, rows, px_width, px_height,
                        [i \in 1..Len(chosen[1]) |-> ImageOpen(chosen[1][i], trashed)]).panic
        /\ (pc = "prompt" /\ lastCmd' = "image_info") => ~ImageInfoPanics
        /\ (pc = "prompt" /\ lastCmd' = "batch_info") => ~BatchInfoPanics
      ]_vars

\* ---- C27 ----
\* C27: the trash operation is invoked only in direct response to a bin keypress
\* at a slot prompt, and only on the image of the slot being prompted; keep,
\* redraw, info, preview, unrecognized keys, continue, restart and quit never
\* invoke it, and no file leaves the disk in any other step.
C27_TrashOnlyOnBin ==
    [][ /\ trashCalls' # <<>>
             => /\ pc = "prompt" /\ lastCmd' = "bin"
                /\ trashCalls' = <<displayed[idx + 1]>>
        /\ trashed' # trashed
             => /\ pc = "prompt" /\ lastCmd' = "bin"
                /\ trashed' = trashed \cup {displayed[idx + 1]}
        /\ lastCmd' \in {"keep", "redraw", "batch_info", "image_info", "preview",
                         "invalid", "continue", "restart", "quit"}
             => trashCalls' = <<>> /\ trashed' = trashed
      ]_vars

C27_Witness ==
    /\ pc = "prompt" /\ lastCmd = "bin" /\ idx = 2 /\ Len(displayed) = 3
    /\ decisions = <<"k", "b">> /\ trashCalls = <<displayed[2]>>
    /\ trashed = {displayed[2]} /\ displayed[1] # displayed[2]

\* ---- C28 ----
\* C28: for every terminal width, widths below 20 columns included, the width
\* budget cols - 20 of the prompt line is computed without unsigned underflow:
\* whenever a slot is prompted, the subtraction did not go below 0.
C28_WidthBudgetNoUnderflow == pc = "prompt" => cols - PromptMargin >= 0

====
